---------------------------- MODULE Spec2Model ----------------------------
(***************************************************************************)
(* Traffic microsimulation of TrafficScene (src/unnamed/part_001): the     *)
(* network builder, the signal controller and the car flow simulator.      *)
(*                                                                         *)
(* Numbers.  The source computes in IEEE doubles.  Here every length,      *)
(* speed and acceleration is a fixed-point integer with SCALE units per    *)
(* source unit (4.6 is 4600), products are rescaled, and quotients are     *)
(* rounded to nearest.  Signal timers count physics steps: PHYSICS_HZ     *)
(* units per second, so that dt = PHYSICS_DT is exactly one unit.          *)
(*                                                                         *)
(* Identifiers.  The source builds ids as strings: `x_z` for a node,       *)
(* `R_<from>_<to>` for a ROAD lane, `J_<in>_<out>` for a JUNCTION lane.    *)
(* Here a node id is <<x, z>>, a ROAD id is <<"R", from, to>> and a        *)
(* JUNCTION id is <<"J", in, out>>; null is the empty tuple.               *)
(***************************************************************************)
EXTENDS Integers, Sequences, FiniteSets, TLC

VARIABLES
    lanes,      \* lanesRef.current : lane id -> Lane
    lights,     \* lightsRef.current: node id -> TrafficLight
    cars,       \* carsRef.current  : sequence of Car, in array order
    ticks,      \* number of updatePhysics calls made so far
    gaps,       \* history: car id -> the gap pass 1 of the last tick computed
    seen,       \* history: node id -> the signal states shown before this one
    accumulator, \* animate's accumulator, FRAME_RES units per PHYSICS_DT
    camera,     \* camera.position as animate steers it
    pc,         \* animate's position: "idle" between frames, "drain" in its loop
    frame       \* history: the frame being run or last run

simVars == <<lanes, lights, cars, ticks, gaps, seen>>
frameVars == <<accumulator, camera, pc, frame>>
vars == <<lanes, lights, cars, ticks, gaps, seen, accumulator, camera, pc, frame>>

---------------------------------------------------------------------------
(* 1. Configuration                                                        *)

SCALE == 1000

PHYSICS_HZ == 60

GRID_SIZE == 3
BLOCK_SIZE == 160000
ROAD_WIDTH == 12000
LANE_OFFSET == 3000

CAR_LENGTH == 4600
MIN_GAP == 2000

IDM_V0 == 14000
IDM_T == 1600
IDM_A == 1500
IDM_B == 2500
IDM_S0 == 3000

LIGHT_RED == "RED"
LIGHT_GREEN == "GREEN"
LIGHT_AMBER == "AMBER"

NoLane == <<>>
NoNode == <<>>
NoDir == "NONE"

---------------------------------------------------------------------------
(* 2. Arithmetic helpers                                                   *)

Abs(n) == IF n < 0 THEN -n ELSE n
Max(a, b) == IF a >= b THEN a ELSE b
Min(a, b) == IF a <= b THEN a ELSE b

\* The quotient a / b (b > 0) rounded to the nearest integer, half away from
\* zero: a double quotient brought back to fixed point.
Quot(a, b) == IF a >= 0 THEN (a + b \div 2) \div b ELSE -((b \div 2 - a) \div b)

RECURSIVE SqrtIter(_, _)
SqrtIter(n, x) ==
    LET y == (x + n \div x) \div 2
    IN  IF y >= x THEN x ELSE SqrtIter(n, y)

\* Math.sqrt on a non-negative integer, rounded down.
ISqrt(n) == IF n <= 0 THEN 0 ELSE SqrtIter(n, n)

\* Math.sqrt on a non-negative integer, rounded to the nearest integer.
RSqrt(n) == LET r == ISqrt(n) IN IF n - r * r > r THEN r + 1 ELSE r

\* Vector3 on the ground plane: <<x, z>> (y is 0 for every lane point).
VAdd(p, q) == <<p[1] + q[1], p[2] + q[2]>>
VSub(p, q) == <<p[1] - q[1], p[2] - q[2]>>
VDot(p, q) == p[1] * q[1] + p[2] * q[2]

\* Vector3.length of an offset; exact on the axes, else via centi-units.
VLength(d) ==
    IF d[2] = 0 THEN Abs(d[1])
    ELSE IF d[1] = 0 THEN Abs(d[2])
    ELSE 10 * ISqrt((d[1] \div 10) * (d[1] \div 10) + (d[2] \div 10) * (d[2] \div 10))

\* Vector3.normalize: a unit vector in SCALE-ths.
VNormalize(d) ==
    LET l == VLength(d)
    IN  <<Quot(d[1] * SCALE, l), Quot(d[2] * SCALE, l)>>

---------------------------------------------------------------------------
(* 3. Network generation (buildNetwork)                                    *)

NodeId(x, z) == <<x, z>>

\* The grid nodes in creation order: x outer, z inner.
NodeSeq == [k \in 1..(GRID_SIZE * GRID_SIZE) |->
                NodeId((k - 1) \div GRID_SIZE, (k - 1) % GRID_SIZE)]

Nodes == {NodeSeq[k] : k \in DOMAIN NodeSeq}

getNodePos(x, z) == <<(x - 1) * BLOCK_SIZE, (z - 1) * BLOCK_SIZE>>

RoadId(from, to) == <<"R", from, to>>
JunctionId(inId, outId) == <<"J", inId, outId>>

\* THREE.LineCurve3 and THREE.QuadraticBezierCurve3, by their defining points.
LineCurve3(p1, p2) == [kind |-> "LINE", v0 |-> p1, v1 |-> p1, v2 |-> p2]
QuadraticBezierCurve3(p1, control, p2) ==
    [kind |-> "BEZIER", v0 |-> p1, v1 |-> control, v2 |-> p2]

\* path.getPoint(0), path.getPoint(1)
getPointStart(path) == path.v0
getPointEnd(path) == path.v2

\* path.getTangent(u) of a straight lane: the same unit vector at every u.
getTangent(path) == VNormalize(VSub(path.v2, path.v0))

\* Curve.getLength sums the chords of this many equal parameter steps.
ARC_DIVISIONS == 200

\* ARC_DIVISIONS^2 times the offset of the Bezier point at u = i/ARC_DIVISIONS
\* from the curve's first point.
BezierNum(path, i) ==
    LET c == VSub(path.v1, path.v0)
        e == VSub(path.v2, path.v0)
        w == 2 * (ARC_DIVISIONS - i) * i
    IN  <<w * c[1] + i * i * e[1], w * c[2] + i * i * e[2]>>

\* The chords are kept in CHORD_RES-ths of a fixed-point unit.
CHORD_RES == (ARC_DIVISIONS * ARC_DIVISIONS) \div (SCALE \div 4)

\* The chord between the points at steps i - 1 and i, to the nearest
\* CHORD_RES-th of a unit.
Chord(path, i) ==
    LET d  == VSub(BezierNum(path, i), BezierNum(path, i - 1))
        dx == Quot(d[1], SCALE \div 4)
        dz == Quot(d[2], SCALE \div 4)
    IN  RSqrt(dx * dx + dz * dz)

\* The sum of the chords lo..hi.
RECURSIVE ChordSum(_, _, _)
ChordSum(path, lo, hi) ==
    IF lo > hi THEN 0
    ELSE IF lo = hi THEN Chord(path, lo)
    ELSE LET mid == (lo + hi) \div 2
         IN  ChordSum(path, lo, mid) + ChordSum(path, mid + 1, hi)

\* curve.getLength()
getLength(path) ==
    IF path.kind = "LINE" THEN VLength(VSub(path.v2, path.v0))
    ELSE Quot(ChordSum(path, 1, ARC_DIVISIONS), CHORD_RES)

\* addRoadLane: the Lane record stored under id.
addRoadLane(p1, p2, id, toNode, dir) ==
    LET curve == LineCurve3(p1, p2)
    IN  [id |-> id, type |-> "ROAD", path |-> curve, len |-> getLength(curve),
         nextLanes |-> <<>>, prevLanes |-> <<>>,
         toNodeId |-> toNode, direction |-> dir]

\* The ROAD lanes added for grid cell (x, z), in the order the loop adds them.
RoadsOfCell(x, z) ==
    LET curr   == getNodePos(x, z)
        nodeId == NodeId(x, z)
        ewPair ==
            IF x < GRID_SIZE - 1
            THEN LET next       == getNodePos(x + 1, z)
                     nextNodeId == NodeId(x + 1, z)
                     s1 == VAdd(curr, <<ROAD_WIDTH, LANE_OFFSET>>)
                     e1 == VAdd(next, <<-ROAD_WIDTH, LANE_OFFSET>>)
                     s2 == VAdd(next, <<-ROAD_WIDTH, -LANE_OFFSET>>)
                     e2 == VAdd(curr, <<ROAD_WIDTH, -LANE_OFFSET>>)
                 IN  << addRoadLane(s1, e1, RoadId(nodeId, nextNodeId), nextNodeId, "EW"),
                        addRoadLane(s2, e2, RoadId(nextNodeId, nodeId), nodeId, "EW") >>
            ELSE <<>>
        nsPair ==
            IF z < GRID_SIZE - 1
            THEN LET next       == getNodePos(x, z + 1)
                     nextNodeId == NodeId(x, z + 1)
                     s1 == VAdd(curr, <<-LANE_OFFSET, ROAD_WIDTH>>)
                     e1 == VAdd(next, <<-LANE_OFFSET, -ROAD_WIDTH>>)
                     s2 == VAdd(next, <<LANE_OFFSET, -ROAD_WIDTH>>)
                     e2 == VAdd(curr, <<LANE_OFFSET, ROAD_WIDTH>>)
                 IN  << addRoadLane(s1, e1, RoadId(nodeId, nextNodeId), nextNodeId, "NS"),
                        addRoadLane(s2, e2, RoadId(nextNodeId, nodeId), nodeId, "NS") >>
            ELSE <<>>
    IN  ewPair \o nsPair

RECURSIVE RoadsFrom(_)
RoadsFrom(k) ==
    IF k > Len(NodeSeq) THEN <<>>
    ELSE RoadsOfCell(NodeSeq[k][1], NodeSeq[k][2]) \o RoadsFrom(k + 1)

\* Every ROAD lane in the order of insertion into the lane map.
RoadSeq == RoadsFrom(1)

\* The lane map after part B of buildNetwork.
RoadMap ==
    [id \in {RoadSeq[i].id : i \in DOMAIN RoadSeq} |->
        RoadSeq[CHOOSE i \in DOMAIN RoadSeq :
                    /\ RoadSeq[i].id = id
                    /\ \A j \in DOMAIN RoadSeq : RoadSeq[j].id = id => j <= i]]

\* 1000 * cos(0.8 * pi): the angle exceeds 0.8 * pi iff its cosine is below this.
COS_MAX_TURN == -809

\* outLane.id.startsWith(`R_${inLane.toNodeId}_`)
startsWithNode(outId, toNodeId) == outId[1] = "R" /\ outId[2] = toNodeId

\* Mutant of angleExceeds: the filter also rejects the right-angle turns.
angleExceeds_rightAngle(inDir, outDir) == Quot(VDot(inDir, outDir), SCALE) <= 0

\* inDir.angleTo(outDir) > Math.PI * 0.8, decided on the cosine of the angle
\* (acos is decreasing; both tangents are unit vectors in SCALE-ths).
angleExceeds(inDir, outDir) == Quot(VDot(inDir, outDir), SCALE) < COS_MAX_TURN

\* Mutant of junctionLane: the JUNCTION lane is stored without its predecessor.
junctionLane_noPrev(inLane, outLane) ==
    [id |-> JunctionId(inLane.id, outLane.id), type |-> "JUNCTION",
     path |-> QuadraticBezierCurve3(getPointEnd(inLane.path), getPointEnd(inLane.path),
                                    getPointStart(outLane.path)),
     len |-> VLength(VSub(getPointStart(outLane.path), getPointEnd(inLane.path))),
     nextLanes |-> <<outLane.id>>, prevLanes |-> <<>>,
     toNodeId |-> NoNode, direction |-> NoDir]

\* The JUNCTION Lane record synthesized from inLane to outLane.
junctionLane(inLane, outLane) ==
    LET inDir   == getTangent(inLane.path)
        p1      == getPointEnd(inLane.path)
        p2      == getPointStart(outLane.path)
        control == VAdd(p1, <<Quot(inDir[1] * ((ROAD_WIDTH * 3) \div 2), SCALE),
                              Quot(inDir[2] * ((ROAD_WIDTH * 3) \div 2), SCALE)>>)
        curve   == QuadraticBezierCurve3(p1, control, p2)
    IN  [id |-> JunctionId(inLane.id, outLane.id), type |-> "JUNCTION",
         path |-> curve, len |-> getLength(curve),
         nextLanes |-> <<outLane.id>>, prevLanes |-> <<inLane.id>>,
         toNodeId |-> NoNode, direction |-> NoDir]

\* The body of the inner forEach for one (inLane, outLane) pair, applied to the
\* lane map m: set the JUNCTION lane and push its id on inLane.nextLanes.
connectLanes(m, inId, outId) ==
    LET inLane  == m[inId]
        outLane == m[outId]
    IN  IF inLane.type # "ROAD" \/ outLane.type # "ROAD" THEN m
        ELSE IF ~startsWithNode(outLane.id, inLane.toNodeId) THEN m
        ELSE IF angleExceeds(getTangent(inLane.path), getTangent(outLane.path)) THEN m
        ELSE LET j == junctionLane(inLane, outLane)
             IN  (j.id :> j) @@ [m EXCEPT ![inId].nextLanes = Append(@, j.id)]

\* The inner forEach: outLane runs over the snapshot of the lanes from index j.
RECURSIVE connectOut(_, _, _)
connectOut(m, inId, j) ==
    IF j > Len(RoadSeq) THEN m
    ELSE LET m2 == connectLanes(m, inId, RoadSeq[j].id)
         IN  IF inId \in DOMAIN m2 THEN connectOut(m2, inId, j + 1) ELSE m2

\* The outer forEach: inLane runs over the snapshot of the lanes from index i.
RECURSIVE connectFrom(_, _)
connectFrom(m, i) ==
    IF i > Len(RoadSeq) THEN m
    ELSE LET m2 == connectOut(m, RoadSeq[i].id, 1)
         IN  IF RoadSeq[i].id \in DOMAIN m2 THEN connectFrom(m2, i + 1) ELSE m2

\* lanesRef.current after buildNetwork.
buildLanes == connectFrom(RoadMap, 1)

\* The TrafficLight record buildNetwork stores for a node: the phase and the
\* timer are the two random draws, the heads start NS red and EW green.
newLight(nodeId, phase, timer) ==
    [nodeId |-> nodeId, phase |-> phase, timer |-> timer,
     meshNS |-> LIGHT_RED, meshEW |-> LIGHT_GREEN]

---------------------------------------------------------------------------
(* 4. Traffic lights                                                       *)

\* Timer units per call of updatePhysics: dt = PHYSICS_DT = 1 / PHYSICS_HZ s.
PHYSICS_DT == 1

T_GREEN == 10
T_YELLOW == 4
T_RED_CLEAR == 2
CYCLE == (T_GREEN + T_YELLOW + T_RED_CLEAR) * 2

\* Seconds as timer units.
Sec(s) == s * PHYSICS_HZ

\* Mutant of lightColors: the EW green branch leaves NS green.
lightColors_bothGreen(t) ==
    IF t < Sec(T_GREEN) THEN <<LIGHT_GREEN, LIGHT_RED>>
    ELSE IF t < Sec(T_GREEN + T_YELLOW) THEN <<LIGHT_AMBER, LIGHT_RED>>
    ELSE IF t < Sec(T_GREEN + T_YELLOW + T_RED_CLEAR) THEN <<LIGHT_RED, LIGHT_RED>>
    ELSE IF t < Sec(T_GREEN + T_YELLOW + T_RED_CLEAR + T_GREEN)
         THEN <<LIGHT_GREEN, LIGHT_GREEN>>
    ELSE IF t < Sec(T_GREEN + T_YELLOW + T_RED_CLEAR + T_GREEN + T_YELLOW)
         THEN <<LIGHT_RED, LIGHT_AMBER>>
    ELSE <<LIGHT_RED, LIGHT_RED>>

\* Mutant of lightColors: the yellow branches compare with <= instead of <.
lightColors_lateYellow(t) ==
    IF t < Sec(T_GREEN) THEN <<LIGHT_GREEN, LIGHT_RED>>
    ELSE IF t <= Sec(T_GREEN + T_YELLOW) THEN <<LIGHT_AMBER, LIGHT_RED>>
    ELSE IF t < Sec(T_GREEN + T_YELLOW + T_RED_CLEAR) THEN <<LIGHT_RED, LIGHT_RED>>
    ELSE IF t < Sec(T_GREEN + T_YELLOW + T_RED_CLEAR + T_GREEN)
         THEN <<LIGHT_RED, LIGHT_GREEN>>
    ELSE IF t <= Sec(T_GREEN + T_YELLOW + T_RED_CLEAR + T_GREEN + T_YELLOW)
         THEN <<LIGHT_RED, LIGHT_AMBER>>
    ELSE <<LIGHT_RED, LIGHT_RED>>

\* The if-chain of updateTrafficLights on t = timer % CYCLE: <<ns, ew>>.
lightColors(t) ==
    IF t < Sec(T_GREEN) THEN <<LIGHT_GREEN, LIGHT_RED>>
    ELSE IF t < Sec(T_GREEN + T_YELLOW) THEN <<LIGHT_AMBER, LIGHT_RED>>
    ELSE IF t < Sec(T_GREEN + T_YELLOW + T_RED_CLEAR) THEN <<LIGHT_RED, LIGHT_RED>>
    ELSE IF t < Sec(T_GREEN + T_YELLOW + T_RED_CLEAR + T_GREEN)
         THEN <<LIGHT_RED, LIGHT_GREEN>>
    ELSE IF t < Sec(T_GREEN + T_YELLOW + T_RED_CLEAR + T_GREEN + T_YELLOW)
         THEN <<LIGHT_RED, LIGHT_AMBER>>
    ELSE <<LIGHT_RED, LIGHT_RED>>

\* Mutant of updateLight: the timer stops at the end of its first cycle.
updateLight_stopsAfterCycle(light, dt) ==
    LET timer == IF light.timer + dt < Sec(CYCLE) THEN light.timer + dt ELSE light.timer
        col   == lightColors(timer % Sec(CYCLE))
    IN  [light EXCEPT !.timer = timer, !.meshNS = col[1], !.meshEW = col[2]]

\* The forEach body of updateTrafficLights for one light.
updateLight(light, dt) ==
    LET timer == light.timer + dt
        col   == lightColors(timer % Sec(CYCLE))
    IN  [light EXCEPT !.timer = timer, !.meshNS = col[1], !.meshEW = col[2]]

\* updateTrafficLights(dt) applied to the light map ls.
updateTrafficLights(ls, dt) == [n \in DOMAIN ls |-> updateLight(ls[n], dt)]

\* Mutant of getTrafficLightState: every color but red reads as GREEN.
getTrafficLightState_amberGreen(ls, lane) ==
    IF lane.type # "ROAD" \/ lane.toNodeId = NoNode \/ lane.direction = NoDir
    THEN "GREEN"
    ELSE IF lane.toNodeId \notin DOMAIN ls THEN "GREEN"
    ELSE LET light == ls[lane.toNodeId]
             col   == IF lane.direction = "NS" THEN light.meshNS ELSE light.meshEW
         IN  IF col = LIGHT_RED THEN "RED" ELSE "GREEN"

\* Mutant of getTrafficLightState: the colors read are the ones the signal
\* heads were built with.
getTrafficLightState_builtColors(ls, lane) ==
    IF lane.type # "ROAD" \/ lane.toNodeId = NoNode \/ lane.direction = NoDir
    THEN "GREEN"
    ELSE IF lane.toNodeId \notin DOMAIN ls THEN "GREEN"
    ELSE IF lane.direction = "NS" THEN "RED" ELSE "GREEN"

\* getTrafficLightState(lane), read back from the displayed color.
getTrafficLightState(ls, lane) ==
    IF lane.type # "ROAD" \/ lane.toNodeId = NoNode \/ lane.direction = NoDir
    THEN "GREEN"
    ELSE IF lane.toNodeId \notin DOMAIN ls THEN "GREEN"
    ELSE LET light == ls[lane.toNodeId]
             col   == IF lane.direction = "NS" THEN light.meshNS ELSE light.meshEW
         IN  IF col = LIGHT_GREEN THEN "GREEN"
             ELSE IF col = LIGHT_AMBER THEN "YELLOW"
             ELSE "RED"

---------------------------------------------------------------------------
(* 5. Car flow (initCars, updatePhysics)                                   *)

FREE_GAP == 500000
STOP_MARGIN == 2000
LOOKAHEAD == 50000

\* Math.floor(Math.random() * keys.length) over the ROAD keys: the key drawn.
RoadIdsOf(lm) == {k \in DOMAIN lm : k[1] = "R"}

\* The Car record initCars pushes for id i on lane `lane`; r is the random draw
\* of Math.random() in SCALE-ths, t = r * lane.len * 0.9.
newCar(i, lane, r) ==
    [id |-> i, active |-> TRUE, laneId |-> lane.id,
     t |-> Quot(Quot(r * lane.len, SCALE) * 9, 10),
     v |-> IDM_V0 \div 2, a |-> 0, color |-> "WHITE", targetLaneId |-> NoLane]

\* The indices (array order) of the cars of cs on lane laneId.
lanePeersOf(cs, laneId) ==
    SelectSeq([i \in 1..Len(cs) |-> i], LAMBDA i : cs[i].laneId = laneId)

\* One insertion of a stable sort by descending t.
sortedInsert(cs, sorted, i) ==
    LET k == Cardinality({j \in 1..Len(sorted) : cs[sorted[j]].t >= cs[i].t})
    IN  SubSeq(sorted, 1, k) \o <<i>> \o SubSeq(sorted, k + 1, Len(sorted))

RECURSIVE sortFrom(_, _, _)
sortFrom(cs, list, n) ==
    IF n = 0 THEN <<>> ELSE sortedInsert(cs, sortFrom(cs, list, n - 1), list[n])

\* Mutant of carsByLane: the list is sorted by ascending t.
carsByLane_ascending(cs, laneId) ==
    LET list == lanePeersOf(cs, laneId)
        desc == sortFrom(cs, list, Len(list))
    IN  [k \in 1..Len(desc) |-> desc[Len(desc) + 1 - k]]

\* carsByLane.get(laneId) after list.sort((a, b) => b.t - a.t); the empty
\* sequence where the map has no entry.
carsByLane(cs, laneId) ==
    LET list == lanePeersOf(cs, laneId) IN sortFrom(cs, list, Len(list))

\* lanePeers.indexOf(car)
indexOf(list, i) == CHOOSE k \in 1..Len(list) : list[k] = i

\* a * b / SCALE for a product that exceeds the integer range before rescaling.
MulScaled(a, b) ==
    LET m == Abs(b)
        p == a * (m \div SCALE) + Quot(a * (m % SCALE), SCALE)
    IN  IF b < 0 THEN -p ELSE p

\* The IDM acceleration for speed v, approach rate dv and gap.
idmAcc(v, dv, gap) ==
    LET sqrtAB == ISqrt(IDM_A * IDM_B)
        s_star == IDM_S0 + Max(0, Quot(v * IDM_T, SCALE) + Quot(v * dv, 2 * sqrtAB))
        r      == Quot(v * SCALE, IDM_V0)
        r2     == Quot(r * r, SCALE)
        r4     == Quot(r2 * r2, SCALE)
        q      == Quot(s_star * SCALE, Max(SCALE \div 10, gap))
        q2     == MulScaled(q, q)
    IN  MulScaled(IDM_A, SCALE - r4 - q2)

\* Mutant of committedTarget: a ROAD lane's front car commits under any signal.
committedTarget_anySignal(car, currentLane, isFront, signal, rnd) ==
    IF ~isFront THEN car.targetLaneId
    ELSE IF car.targetLaneId = NoLane /\ Len(currentLane.nextLanes) > 0
    THEN IF currentLane.type = "ROAD" THEN currentLane.nextLanes[rnd + 1]
         ELSE currentLane.nextLanes[1]
    ELSE car.targetLaneId

\* The target the car holds after the commit statements of pass 1; rnd is
\* Math.floor(Math.random() * currentLane.nextLanes.length).
committedTarget(car, currentLane, isFront, signal, rnd) ==
    IF ~isFront THEN car.targetLaneId
    ELSE IF currentLane.type = "ROAD"
    THEN IF signal = "RED" \/ signal = "YELLOW" THEN car.targetLaneId
         ELSE IF car.targetLaneId = NoLane /\ Len(currentLane.nextLanes) > 0
              THEN currentLane.nextLanes[rnd + 1]
              ELSE car.targetLaneId
    ELSE IF car.targetLaneId = NoLane /\ Len(currentLane.nextLanes) > 0
         THEN currentLane.nextLanes[1]
         ELSE car.targetLaneId

\* Mutant of perceive: the green lookahead of a ROAD lane has no threshold.
perceive_noLookahead(cs, c0, ls, lm, i, target) ==
    LET car         == cs[i]
        currentLane == lm[car.laneId]
        lanePeers   == carsByLane(c0, car.laneId)
        idx         == indexOf(lanePeers, i)
        distToEnd   == currentLane.len - car.t
        nextLaneCars == IF target = NoLane THEN <<>> ELSE carsByLane(c0, target)
        lastCar     == cs[nextLaneCars[Len(nextLaneCars)]]
        virtualGap  == distToEnd + lastCar.t - CAR_LENGTH
    IN  IF idx > 1
        THEN LET leader == cs[lanePeers[idx - 1]]
             IN  <<leader.t - car.t - CAR_LENGTH, car.v - leader.v>>
        ELSE IF currentLane.type = "ROAD"
        THEN LET signal == getTrafficLightState(ls, currentLane)
             IN  IF signal = "RED" \/ signal = "YELLOW"
                 THEN <<distToEnd - STOP_MARGIN, car.v>>
                 ELSE IF target # NoLane /\ Len(nextLaneCars) > 0
                      THEN <<virtualGap, car.v - lastCar.v>>
                      ELSE <<FREE_GAP, 0>>
        ELSE IF target # NoLane /\ Len(nextLaneCars) > 0
             THEN <<virtualGap, car.v - lastCar.v>>
             ELSE <<FREE_GAP, 0>>

\* Mutant of perceive: the JUNCTION branch applies the lookahead threshold.
perceive_junctionLookahead(cs, c0, ls, lm, i, target) ==
    LET car         == cs[i]
        currentLane == lm[car.laneId]
        lanePeers   == carsByLane(c0, car.laneId)
        idx         == indexOf(lanePeers, i)
        distToEnd   == currentLane.len - car.t
        nextLaneCars == IF target = NoLane THEN <<>> ELSE carsByLane(c0, target)
        lastCar     == cs[nextLaneCars[Len(nextLaneCars)]]
        virtualGap  == distToEnd + lastCar.t - CAR_LENGTH
    IN  IF idx > 1
        THEN LET leader == cs[lanePeers[idx - 1]]
             IN  <<leader.t - car.t - CAR_LENGTH, car.v - leader.v>>
        ELSE IF currentLane.type = "ROAD"
        THEN LET signal == getTrafficLightState(ls, currentLane)
             IN  IF signal = "RED" \/ signal = "YELLOW"
                 THEN <<distToEnd - STOP_MARGIN, car.v>>
                 ELSE IF target # NoLane /\ Len(nextLaneCars) > 0
                         /\ virtualGap < LOOKAHEAD
                      THEN <<virtualGap, car.v - lastCar.v>>
                      ELSE <<FREE_GAP, 0>>
        ELSE IF target # NoLane /\ Len(nextLaneCars) > 0 /\ virtualGap < LOOKAHEAD
             THEN <<virtualGap, car.v - lastCar.v>>
             ELSE <<FREE_GAP, 0>>

\* <<gap, dv>> of pass 1 for the car at index i. c0 is the car array as it was
\* when carsByLane was built, cs the array as mutated so far in this pass.
perceive(cs, c0, ls, lm, i, target) ==
    LET car         == cs[i]
        currentLane == lm[car.laneId]
        lanePeers   == carsByLane(c0, car.laneId)
        idx         == indexOf(lanePeers, i)
        distToEnd   == currentLane.len - car.t
        nextLaneCars == IF target = NoLane THEN <<>> ELSE carsByLane(c0, target)
        lastCar     == cs[nextLaneCars[Len(nextLaneCars)]]
        virtualGap  == distToEnd + lastCar.t - CAR_LENGTH
    IN  IF idx > 1
        THEN LET leader == cs[lanePeers[idx - 1]]
             IN  <<leader.t - car.t - CAR_LENGTH, car.v - leader.v>>
        ELSE IF currentLane.type = "ROAD"
        THEN LET signal == getTrafficLightState(ls, currentLane)
             IN  IF signal = "RED" \/ signal = "YELLOW"
                 THEN <<distToEnd - STOP_MARGIN, car.v>>
                 ELSE IF target # NoLane /\ Len(nextLaneCars) > 0
                         /\ virtualGap < LOOKAHEAD
                      THEN <<virtualGap, car.v - lastCar.v>>
                      ELSE <<FREE_GAP, 0>>
        ELSE IF target # NoLane /\ Len(nextLaneCars) > 0
             THEN <<virtualGap, car.v - lastCar.v>>
             ELSE <<FREE_GAP, 0>>

\* The hard-stop override and the store of pass 1: the car with gap, dv applied.
decide(car, target, gap, dv) ==
    IF gap < MIN_GAP
    THEN [car EXCEPT !.targetLaneId = target, !.v = 0, !.a = -(IDM_B * 4)]
    ELSE [car EXCEPT !.targetLaneId = target, !.a = idmAcc(car.v, dv, gap)]

\* The body of the first carsRef.current.forEach for the car at index i.
pass1Car(cs, c0, ls, lm, i, rnd) ==
    LET car         == cs[i]
        currentLane == lm[car.laneId]
        isFront     == indexOf(carsByLane(c0, car.laneId), i) = 1
        signal      == getTrafficLightState(ls, currentLane)
        target      == committedTarget(car, currentLane, isFront, signal, rnd)
        gd          == perceive(cs, c0, ls, lm, i, target)
    IN  decide(car, target, gd[1], gd[2])

\* The first forEach, from index i on; rt maps a car id to its random draw.
RECURSIVE pass1(_, _, _, _, _, _)
pass1(cs, c0, ls, lm, i, rt) ==
    IF i > Len(cs) THEN cs
    ELSE pass1([cs EXCEPT ![i] = pass1Car(cs, c0, ls, lm, i, rt[cs[i].id])],
               c0, ls, lm, i + 1, rt)

\* The presentation color chosen at the end of pass 2.
carColor(a, v) ==
    IF a < -(SCALE \div 2) THEN "BRAKE"
    ELSE IF v < (IDM_V0 * 3) \div 10 THEN "ACCEL"
    ELSE "FLOW"

\* Mutant of laneEnd: the transition keeps t instead of subtracting lane.len.
laneEnd_noWrap(car, lane, rr) ==
    IF car.t >= lane.len
    THEN IF car.targetLaneId # NoLane
         THEN [car EXCEPT !.laneId = car.targetLaneId, !.targetLaneId = NoLane]
         ELSE [car EXCEPT !.t = 0, !.laneId = rr]
    ELSE car

\* Mutant of laneEnd: the transition leaves targetLaneId set.
laneEnd_keepTarget(car, lane, rr) ==
    IF car.t >= lane.len
    THEN IF car.targetLaneId # NoLane
         THEN [car EXCEPT !.t = car.t - lane.len, !.laneId = car.targetLaneId]
         ELSE [car EXCEPT !.t = 0, !.laneId = rr]
    ELSE car

\* The lane-end handling of pass 2: the car with t already integrated; rr is
\* the ROAD key drawn for a recycled car.
laneEnd(car, lane, rr) ==
    IF car.t >= lane.len
    THEN IF car.targetLaneId # NoLane
         THEN [car EXCEPT !.t = car.t - lane.len, !.laneId = car.targetLaneId,
                          !.targetLaneId = NoLane]
         ELSE [car EXCEPT !.t = 0, !.laneId = rr]
    ELSE car

\* The clamp and the integration of pass 2.
integrate(car, dt) ==
    LET a1 == IF car.v = 0 /\ car.a < 0 THEN 0 ELSE car.a
        v1 == Max(0, car.v + Quot(a1 * dt, PHYSICS_HZ))
        t1 == car.t + Quot(v1 * dt, PHYSICS_HZ)
    IN  [car EXCEPT !.a = a1, !.v = v1, !.t = t1]

\* The body of the second carsRef.current.forEach for one car.
pass2Car(car, lm, dt, rr) ==
    LET moved  == integrate(car, dt)
        placed == laneEnd(moved, lm[car.laneId], rr)
    IN  [placed EXCEPT !.color = carColor(moved.a, moved.v)]

\* Mutant of pass2: a car that reaches its lane's end is removed from the array.
pass2_despawn(cs, lm, dt, rrs) ==
    SelectSeq([i \in 1..Len(cs) |-> pass2Car(cs[i], lm, dt, rrs[cs[i].id])],
              LAMBDA c : \E i \in 1..Len(cs) :
                            /\ cs[i].id = c.id
                            /\ integrate(cs[i], dt).t < lm[cs[i].laneId].len)

\* The second forEach.
pass2(cs, lm, dt, rrs) ==
    [i \in 1..Len(cs) |-> pass2Car(cs[i], lm, dt, rrs[cs[i].id])]

\* The cars of updatePhysics(dt) after both passes, given the lights as
\* already advanced; rt and rrs map car ids to the random draws of the tick.
updateCars(cs, ls, lm, dt, rt, rrs) ==
    pass2(pass1(cs, cs, ls, lm, 1, rt), lm, dt, rrs)

CarIdsOf(cs) == {cs[i].id : i \in 1..Len(cs)}

\* The car at index i draws a random target in pass 1.
drawsTarget(cs, ls, lm, i) ==
    LET car  == cs[i]
        lane == lm[car.laneId]
    IN  /\ indexOf(carsByLane(cs, car.laneId), i) = 1
        /\ lane.type = "ROAD"
        /\ getTrafficLightState(ls, lane) = "GREEN"
        /\ car.targetLaneId = NoLane
        /\ Len(lane.nextLanes) > 0

\* The possible results of Math.floor(Math.random() * nextLanes.length), per
\* car id; 0 for a car that draws nothing.
TargetDraws(cs, ls, lm) ==
    LET n   == [i \in 1..Len(cs) |->
                   IF drawsTarget(cs, ls, lm, i)
                   THEN Len(lm[cs[i].laneId].nextLanes) ELSE 1]
        ns  == {n[i] : i \in 1..Len(cs)}
        top == IF ns = {} THEN 1 ELSE CHOOSE m \in ns : \A k \in ns : k <= m
    IN  {rt \in [CarIdsOf(cs) -> 0..(top - 1)] :
            \A i \in 1..Len(cs) : rt[cs[i].id] < n[i]}

\* The car at index i of the array after pass 1 is recycled in pass 2.
recycles(cs, lm, dt, i) ==
    /\ integrate(cs[i], dt).t >= lm[cs[i].laneId].len
    /\ cs[i].targetLaneId = NoLane

\* Mutant of RecycleDraws: the keys are not filtered by the R_ prefix.
RecycleDraws_anyLane(cs, lm, dt) ==
    LET rec  == [i \in 1..Len(cs) |-> recycles(cs, lm, dt, i)]
        keys == IF \E i \in 1..Len(cs) : rec[i] THEN DOMAIN lm ELSE {}
    IN  {rrs \in [CarIdsOf(cs) -> keys \cup {NoLane}] :
            \A i \in 1..Len(cs) :
                IF rec[i] THEN rrs[cs[i].id] \in keys ELSE rrs[cs[i].id] = NoLane}

\* The possible ROAD keys drawn for recycled cars, per car id; NoLane for a car
\* that draws nothing.
RecycleDraws(cs, lm, dt) ==
    LET rec  == [i \in 1..Len(cs) |-> recycles(cs, lm, dt, i)]
        keys == IF \E i \in 1..Len(cs) : rec[i] THEN RoadIdsOf(lm) ELSE {}
    IN  {rrs \in [CarIdsOf(cs) -> keys \cup {NoLane}] :
            \A i \in 1..Len(cs) :
                IF rec[i] THEN rrs[cs[i].id] \in keys ELSE rrs[cs[i].id] = NoLane}

---------------------------------------------------------------------------
(* 6. The state machine                                                    *)

\* The number of cars (CAR_COUNT in the source) and of ticks explored.
CarCount == 3
MaxTicks == 180

\* initCars' draws explored: the lane the cars start on and, per car, the
\* value of Math.random() in SCALE-ths that places it along the lane.
StartLanes == {RoadId(NodeId(0, 0), NodeId(0, 1)), RoadId(NodeId(1, 1), NodeId(0, 1))}
StartDraws == {930, 985, 999}

\* buildNetwork's draws explored: <<p, tm>> gives the k-th node of NodeSeq the
\* phase (p + k - 1) % 6 and the timer (tm + 150 * (k - 1)) % Sec(TIMER_SPREAD),
\* in timer units (Math.random() * 10 lies in [0, 10) seconds).
LightDraws == {<<0, 0>>, <<4, 330>>}

\* The pairs <<lane, t draw>> of Math.random() outcomes explored for one car:
\* every start draw on the first start lane, the middle one on the other.
CarDraws ==
    {d \in StartLanes \X StartDraws :
        d[1] = RoadId(NodeId(0, 0), NodeId(0, 1)) \/ d[2] = 985}

\* initCars: CarCount cars with ids 0..CarCount-1 on ROAD lanes, each car with
\* its own lane draw and its own t draw.
InitCars ==
    {[i \in 1..CarCount |-> newCar(i - 1, buildLanes[d[i][1]], d[i][2])] :
        d \in [1..CarCount -> CarDraws]}

\* The values of Math.floor(Math.random() * 6), the phase a signal starts with.
PhaseDraws == 0..5

\* The seconds Math.random() is scaled by for the timer a signal starts with.
TIMER_SPREAD == 10

\* The values of Math.random() * TIMER_SPREAD, in timer units.
TimerDraws == 0..(Sec(TIMER_SPREAD) - 1)

\* The signals of buildNetwork for the draw d of LightDraws.
lightsOfDraw(d) ==
    [n \in Nodes |->
        LET k == CHOOSE j \in DOMAIN NodeSeq : NodeSeq[j] = n
        IN  newLight(n, (d[1] + k - 1) % 6, (d[2] + 150 * (k - 1)) % Sec(TIMER_SPREAD))]

InitLights == {lightsOfDraw(d) : d \in LightDraws}

\* No gap computed yet.
NoGap == "none"

\* History of a node's signal over the states before the current one: the axis
\* that was GREEN last ("NONE" if none yet) and whether both axes have been
\* RED in a state since.
seenAfter(light, h) ==
    IF light.meshNS = LIGHT_GREEN THEN [lastGreen |-> "NS", allRed |-> FALSE]
    ELSE IF light.meshEW = LIGHT_GREEN THEN [lastGreen |-> "EW", allRed |-> FALSE]
    ELSE IF light.meshNS = LIGHT_RED /\ light.meshEW = LIGHT_RED
         THEN [h EXCEPT !.allRed = TRUE]
    ELSE h

\* Accumulator units per PHYSICS_DT: frame times are multiples of 1/600 s.
FRAME_RES == 10

\* The cap of animate on a frame time: 0.1 s.
MAX_FRAME_TIME == (PHYSICS_HZ * FRAME_RES) \div 10

\* The height camera.position.set(0, 500, 500) starts the camera at.
CAMERA_Y0 == 500000

\* What GestureService.detect returns before any hand was seen.
fallback == [isDetected |-> FALSE, openness |-> SCALE \div 2, x |-> SCALE \div 2, y |-> SCALE \div 2]

\* The state after the useEffect setup: buildNetwork, then initCars.
Init ==
    /\ lanes = buildLanes
    /\ lights \in InitLights
    /\ cars \in InitCars
    /\ ticks = 0
    /\ gaps = [id \in 0..(CarCount - 1) |-> NoGap]
    /\ seen = [n \in Nodes |-> [lastGreen |-> "NONE", allRed |-> FALSE]]
    /\ accumulator = 0
    /\ camera = [y |-> CAMERA_Y0, targetR |-> CAMERA_Y0, rotSpeed |-> 0]
    /\ pc = "idle"
    /\ frame = [n |-> 0, delta |-> 0, frameTime |-> 0, before |-> 0, ticks |-> 0,
                gesture |-> fallback]

\* The gap pass 1 computes for each car, by id, read off the array after pass 1
\* (pass 1 changes no t and no laneId, and the target a car perceives with is
\* the one it holds after its commit).
gapsOf(mid, c0, ls, lm) ==
    [id \in CarIdsOf(mid) |->
        LET i == CHOOSE j \in 1..Len(mid) : mid[j].id = id
        IN  perceive(mid, c0, ls, lm, i, mid[i].targetLaneId)[1]]

\* Every possible draw of the tick, given the lights ls as advanced by the tick.
anyDraw(ls) == TargetDraws(cars, ls, lanes)

\* Only the draws in which Math.random() is below 1 / nextLanes.length.
firstDraw(ls) == {rt \in TargetDraws(cars, ls, lanes) : \A id \in DOMAIN rt : rt[id] = 0}

\* Mutant of physicsStep: a committed target is spliced out of its lane's
\* nextLanes.
physicsStep_spliceTarget(dt, onlyFirst) ==
    LET ls == updateTrafficLights(lights, dt)
    IN  /\ lights' = ls
        /\ \E rt \in (IF onlyFirst THEN firstDraw(ls) ELSE anyDraw(ls)) :
             LET mid == pass1(cars, cars, ls, lanes, 1, rt)
                 taken == {mid[i].targetLaneId : i \in 1..Len(mid)}
                             \ {cars[i].targetLaneId : i \in 1..Len(cars)}
             IN  /\ \E rrs \in RecycleDraws(mid, lanes, dt) :
                        cars' = pass2(mid, lanes, dt, rrs)
                 /\ gaps' = gapsOf(mid, cars, ls, lanes)
                 /\ lanes' = [k \in DOMAIN lanes |->
                                [lanes[k] EXCEPT !.nextLanes =
                                    SelectSeq(@, LAMBDA j : j \notin taken)]]
        /\ ticks' = ticks + 1
        /\ seen' = [n \in DOMAIN lights |-> seenAfter(lights[n], seen[n])]

\* Mutant of physicsStep: the cars perceive the signals as they were before
\* the tick advanced them.
physicsStep_staleSignals(dt, onlyFirst) ==
    LET ls == updateTrafficLights(lights, dt)
    IN  /\ lights' = ls
        /\ \E rt \in (IF onlyFirst THEN firstDraw(lights) ELSE anyDraw(lights)) :
             LET mid == pass1(cars, cars, lights, lanes, 1, rt)
             IN  /\ \E rrs \in RecycleDraws(mid, lanes, dt) :
                        cars' = pass2(mid, lanes, dt, rrs)
                 /\ gaps' = gapsOf(mid, cars, lights, lanes)
        /\ ticks' = ticks + 1
        /\ seen' = [n \in DOMAIN lights |-> seenAfter(lights[n], seen[n])]
        /\ UNCHANGED lanes

\* updatePhysics(dt); onlyFirst restricts the target draws of the tick to
\* firstDraw.
physicsStep(dt, onlyFirst) ==
    LET ls == updateTrafficLights(lights, dt)
    IN  /\ lights' = ls
        /\ \E rt \in (IF onlyFirst THEN firstDraw(ls) ELSE anyDraw(ls)) :
             LET mid == pass1(cars, cars, ls, lanes, 1, rt)
             IN  /\ \E rrs \in RecycleDraws(mid, lanes, dt) :
                        cars' = pass2(mid, lanes, dt, rrs)
                 /\ gaps' = gapsOf(mid, cars, ls, lanes)
        /\ ticks' = ticks + 1
        /\ seen' = [n \in DOMAIN lights |-> seenAfter(lights[n], seen[n])]
        /\ UNCHANGED lanes

\* updatePhysics(PHYSICS_DT), as the accumulator loop of animate calls it.
UpdatePhysics ==
    /\ ticks < MaxTicks
    /\ physicsStep(PHYSICS_DT, FALSE)
    /\ UNCHANGED frameVars

Next == UpdatePhysics

Spec == Init /\ [][Next]_vars

\* Long runs, over more than two signal cycles: the same tick, explored for the
\* draws that always take a lane's first successor.
MaxLongTicks == 4000

\* The draws of Math.random() that place the cars of a long run, in id order
\* (taken cyclically).
LongDraws == <<999, 985, 930>>

InitLong ==
    /\ lanes = buildLanes
    /\ lights \in InitLights
    /\ \E l \in StartLanes :
          cars = [i \in 1..CarCount |->
                     newCar(i - 1, buildLanes[l], LongDraws[((i - 1) % Len(LongDraws)) + 1])]
    /\ ticks = 0
    /\ gaps = [id \in 0..(CarCount - 1) |-> NoGap]
    /\ seen = [n \in Nodes |-> [lastGreen |-> "NONE", allRed |-> FALSE]]
    /\ accumulator = 0
    /\ camera = [y |-> CAMERA_Y0, targetR |-> CAMERA_Y0, rotSpeed |-> 0]
    /\ pc = "idle"
    /\ frame = [n |-> 0, delta |-> 0, frameTime |-> 0, before |-> 0, ticks |-> 0,
                gesture |-> fallback]

UpdatePhysicsLong ==
    /\ ticks < MaxLongTicks
    /\ physicsStep(PHYSICS_DT, TRUE)
    /\ UNCHANGED frameVars

NextLong == UpdatePhysicsLong

SpecLong == InitLong /\ [][NextLong]_vars

\* The network as built, followed over its first ticks only.
MaxBuiltTicks == 2

UpdatePhysicsBuilt ==
    /\ ticks < MaxBuiltTicks
    /\ physicsStep(PHYSICS_DT, FALSE)
    /\ UNCHANGED frameVars

NextBuilt == UpdatePhysicsBuilt

SpecBuilt == Init /\ [][NextBuilt]_vars

---------------------------------------------------------------------------
(* 6c. A lone car, over several signal cycles                              *)

\* The ticks explored with a lone car: three signal cycles.
MaxLoneTicks == 5760

\* initCars with CAR_COUNT = 1: the car on either start lane, at the first
\* start draw, under the second of the light draws.
InitLone ==
    /\ lanes = buildLanes
    /\ lights = lightsOfDraw(<<4, 330>>)
    /\ \E l \in StartLanes : cars = <<newCar(0, buildLanes[l], LongDraws[Len(LongDraws)])>>
    /\ ticks = 0
    /\ gaps = [id \in {0} |-> NoGap]
    /\ seen = [n \in Nodes |-> [lastGreen |-> "NONE", allRed |-> FALSE]]
    /\ accumulator = 0
    /\ camera = [y |-> CAMERA_Y0, targetR |-> CAMERA_Y0, rotSpeed |-> 0]
    /\ pc = "idle"
    /\ frame = [n |-> 0, delta |-> 0, frameTime |-> 0, before |-> 0, ticks |-> 0,
                gesture |-> fallback]

\* updatePhysics(PHYSICS_DT) under the first target draw.
UpdatePhysicsLone ==
    /\ ticks < MaxLoneTicks
    /\ physicsStep(PHYSICS_DT, TRUE)
    /\ UNCHANGED frameVars

NextLone == UpdatePhysicsLone

\* The signals' share of the tick (updatePhysics calls updateTrafficLights
\* first): taken by every tick and by nothing else.
TickSignals ==
    /\ ticks < MaxLoneTicks
    /\ lights' = updateTrafficLights(lights, PHYSICS_DT)

\* animate re-arms itself with requestAnimationFrame on every frame, so the
\* tick keeps being taken for as long as the run is followed.
SpecLone == InitLone /\ [][NextLone]_vars /\ WF_lights(TickSignals)

---------------------------------------------------------------------------
(* 6b. Presentation frames                                                 *)

\* The camera targets and the smoothing factor of animate.
H_MIN == 80000
H_MAX == 600000
R_MIN == 100000
R_MAX == 600000
CAM_ALPHA == 80
IDLE_OPENNESS == 500
IDLE_ROT_SPEED == 50

\* Mutant of clampFrameTime: the elapsed time is used as it is.
clampFrameTime_noClamp(delta) == delta

\* frameTime = Math.min((now - lastTime) / 1000, 0.1), delta = now - lastTime.
clampFrameTime(delta) == Min(delta, MAX_FRAME_TIME)

\* Mutant of needsTick: the loop stops one step early.
needsTick_strict(acc) == acc > PHYSICS_DT * FRAME_RES

\* The condition of the while loop of animate.
needsTick(acc) == acc >= PHYSICS_DT * FRAME_RES

\* The camera after the smooth lerp towards the targets of gesture g. The
\* height is lerped; of the orbit, the target radius and the rotation speed
\* (the gesture's part of theta) are kept.
steerCamera(cam, g) ==
    LET openness == IF g.isDetected THEN g.openness ELSE IDLE_OPENNESS
        targetH  == H_MAX - Quot(openness * (H_MAX - H_MIN), SCALE)
        targetR  == R_MAX - Quot(openness * (R_MAX - R_MIN), SCALE)
        rotSpeed == IF g.isDetected THEN (g.x - SCALE \div 2) * 2 ELSE IDLE_ROT_SPEED
    IN  [y |-> cam.y + Quot((targetH - cam.y) * CAM_ALPHA, SCALE),
         targetR |-> targetR, rotSpeed |-> rotSpeed]

\* Mutant of frameStart: the frame time is scaled by the hand's openness.
frameStart_timeWarp(acc, cam, delta, g) ==
    LET frameTime == clampFrameTime(delta)
        warped    == IF g.isDetected THEN Quot(frameTime * g.openness, SCALE) ELSE frameTime
    IN  [frameTime |-> frameTime, camera |-> steerCamera(cam, g),
         accumulator |-> acc + warped]

\* animate up to its while loop: the frame time, the camera and the
\* accumulator, from the elapsed time delta and the gesture g.
frameStart(acc, cam, delta, g) ==
    LET frameTime == clampFrameTime(delta)
    IN  [frameTime |-> frameTime, camera |-> steerCamera(cam, g),
         accumulator |-> acc + frameTime]

\* The frames explored, the elapsed times between them (a stall included) and
\* the gestures detected.
MaxFrames == 3
FrameTimes == {0, 10, 25, 900}
Gestures ==
    {fallback,
     [isDetected |-> TRUE, openness |-> 250, x |-> 800, y |-> SCALE \div 2]}

\* animate is called: everything before the while loop.
AnimateBegin ==
    /\ pc = "idle"
    /\ frame.n < MaxFrames
    /\ \E delta \in FrameTimes, g \in Gestures :
          LET r == frameStart(accumulator, camera, delta, g)
          IN  /\ accumulator' = r.accumulator
              /\ camera' = r.camera
              /\ frame' = [n |-> frame.n + 1, delta |-> delta, frameTime |-> r.frameTime,
                           before |-> accumulator, ticks |-> 0, gesture |-> g]
    /\ pc' = "drain"
    /\ UNCHANGED simVars

\* One iteration of the while loop.
AnimateTick ==
    /\ pc = "drain"
    /\ needsTick(accumulator)
    /\ physicsStep(PHYSICS_DT, FALSE)
    /\ accumulator' = accumulator - PHYSICS_DT * FRAME_RES
    /\ frame' = [frame EXCEPT !.ticks = @ + 1]
    /\ UNCHANGED <<camera, pc>>

\* The loop is left; renderParticles and renderer.render end the frame.
AnimateEnd ==
    /\ pc = "drain"
    /\ ~needsTick(accumulator)
    /\ pc' = "idle"
    /\ UNCHANGED <<simVars, accumulator, camera, frame>>

InitFrames == InitLong

NextFrames == AnimateBegin \/ AnimateTick \/ AnimateEnd

SpecFrames == InitFrames /\ [][NextFrames]_vars

---------------------------------------------------------------------------
(* 7. Properties                                                           *)

LaneIds == DOMAIN lanes
RoadLaneIds == {k \in LaneIds : lanes[k].type = "ROAD"}
JunctionLaneIds == {k \in LaneIds : lanes[k].type = "JUNCTION"}

IsRoad(k) == k \in DOMAIN lanes /\ lanes[k].type = "ROAD"

InSeq(x, sq) == \E k \in 1..Len(sq) : sq[k] = x

\* C8: every JUNCTION lane has exactly one entry in prevLanes and exactly one
\* in nextLanes, both naming existing ROAD lanes, and every ROAD lane's
\* toNodeId names an intersection of the signal map.
C8_JunctionDegreeAndRoadNode ==
    /\ \A j \in JunctionLaneIds :
        /\ Len(lanes[j].prevLanes) = 1
        /\ Len(lanes[j].nextLanes) = 1
        /\ IsRoad(lanes[j].prevLanes[1])
        /\ IsRoad(lanes[j].nextLanes[1])
    /\ \A r \in RoadLaneIds : lanes[r].toNodeId \in DOMAIN lights

\* C8 witness: the built network holds JUNCTION lanes and ROAD lanes, and a
\* ROAD lane fans out to several JUNCTION lanes.
C8_Witness ==
    /\ JunctionLaneIds # {}
    /\ \E r \in RoadLaneIds : Len(lanes[r].nextLanes) > 1

\* C9 (as claimed): every JUNCTION lane J synthesized from ROAD lane `in` to
\* ROAD lane `out` is in in.nextLanes and in out.prevLanes.
C9_BidirectionalAdjacency ==
    \A j \in JunctionLaneIds :
        LET in  == lanes[j].prevLanes[1]
            out == lanes[j].nextLanes[1]
        IN  /\ InSeq(j, lanes[in].nextLanes)
            /\ InSeq(j, lanes[out].prevLanes)

\* The grid direction of a ROAD lane: destination node minus origin node.
gridDir(roadId) == VSub(roadId[3], roadId[2])

\* The turn from ROAD lane a into ROAD lane b in degrees, from the grid alone:
\* 0 straight on, 180 back where it came from, 90 otherwise.
turnDegrees(a, b) ==
    IF gridDir(a) = gridDir(b) THEN 0
    ELSE IF gridDir(a) = <<-gridDir(b)[1], -gridDir(b)[2]>> THEN 180
    ELSE 90

\* C10: for every ordered pair of ROAD lanes (in, out) where out starts at in's
\* destination node, a JUNCTION lane connecting them exists iff the angle between
\* in's end tangent and out's start tangent does not exceed 0.8 * pi (144
\* degrees): no JUNCTION lane for the reverse lane (U-turn), one for every
\* straight and every 90-degree pair; and a JUNCTION lane connects no other pair.
C10_JunctionFilter ==
    /\ LET roads == RoadLaneIds
       IN  \A in \in roads : \A out \in roads :
        lanes[in].toNodeId = out[2] =>
            /\ JunctionId(in, out) \in LaneIds <=> turnDegrees(in, out) <= 144
            /\ JunctionId(in, out) \in LaneIds <=>
                 VDot(getTangent(lanes[in].path), getTangent(lanes[out].path))
                    >= COS_MAX_TURN * SCALE
            /\ JunctionId(in, out) \in LaneIds => lanes[JunctionId(in, out)].type = "JUNCTION"
    /\ \A j \in JunctionLaneIds :
        /\ j = JunctionId(lanes[j].prevLanes[1], lanes[j].nextLanes[1])
        /\ lanes[lanes[j].prevLanes[1]].toNodeId = lanes[j].nextLanes[1][2]

\* C10 witness: at one node the network has a U-turn pair without a JUNCTION
\* lane, a straight pair with one and a 90-degree pair with one.
C10_Witness ==
    LET roads == RoadLaneIds
        from(in) == {out \in roads : lanes[in].toNodeId = out[2]}
    IN  \E in \in roads :
            /\ \E u \in from(in) : turnDegrees(in, u) = 180 /\ JunctionId(in, u) \notin LaneIds
            /\ \E st \in from(in) : turnDegrees(in, st) = 0 /\ JunctionId(in, st) \in LaneIds
            /\ \E tu \in from(in) : turnDegrees(in, tu) = 90 /\ JunctionId(in, tu) \in LaneIds

\* C1: after any number of ticks from initCars, every car's laneId names a lane
\* of the lane map and its position satisfies 0 <= t < length of that lane.
C1_CarsOnLanesInRange ==
    \A i \in 1..Len(cars) :
        /\ cars[i].laneId \in DOMAIN lanes
        /\ 0 <= cars[i].t
        /\ cars[i].t < lanes[cars[i].laneId].len

\* C1 witness: a car has crossed two lane ends (ROAD to JUNCTION to ROAD) and
\* is on a ROAD lane no car started on.
C1_Witness ==
    \E i \in 1..Len(cars) : IsRoad(cars[i].laneId) /\ cars[i].laneId \notin StartLanes

\* C2: for every intersection, after every call of updateTrafficLights, NS and
\* EW are never both GREEN and never both YELLOW.
C2_NoConflictingPermission ==
    \A n \in DOMAIN lights :
        /\ ~(lights[n].meshNS = LIGHT_GREEN /\ lights[n].meshEW = LIGHT_GREEN)
        /\ ~(lights[n].meshNS = LIGHT_AMBER /\ lights[n].meshEW = LIGHT_AMBER)

\* C2 witness: after ticks, one intersection shows EW GREEN while another shows
\* NS YELLOW.
C2_Witness ==
    /\ ticks > 0
    /\ \E n \in DOMAIN lights : lights[n].meshEW = LIGHT_GREEN
    /\ \E n \in DOMAIN lights : lights[n].meshNS = LIGHT_AMBER

\* C5 (as claimed): for every intersection, between a state in which one axis
\* is GREEN and the next later state in which the other axis is GREEN there is
\* a state in which both axes are RED.
C5_AllRedBetweenGreens ==
    \A n \in DOMAIN lights :
        /\ (lights[n].meshNS = LIGHT_GREEN /\ seen[n].lastGreen = "EW") => seen[n].allRed
        /\ (lights[n].meshEW = LIGHT_GREEN /\ seen[n].lastGreen = "NS") => seen[n].allRed

\* The six-row phase table, windows in seconds within the cycle.
PhaseTable ==
    << [lo |-> 0, hi |-> T_GREEN, ns |-> "GREEN", ew |-> "RED"],
       [lo |-> T_GREEN, hi |-> T_GREEN + T_YELLOW, ns |-> "YELLOW", ew |-> "RED"],
       [lo |-> T_GREEN + T_YELLOW, hi |-> T_GREEN + T_YELLOW + T_RED_CLEAR,
        ns |-> "RED", ew |-> "RED"],
       [lo |-> T_GREEN + T_YELLOW + T_RED_CLEAR, hi |-> 2 * T_GREEN + T_YELLOW + T_RED_CLEAR,
        ns |-> "RED", ew |-> "GREEN"],
       [lo |-> 2 * T_GREEN + T_YELLOW + T_RED_CLEAR,
        hi |-> 2 * T_GREEN + 2 * T_YELLOW + T_RED_CLEAR, ns |-> "RED", ew |-> "YELLOW"],
       [lo |-> 2 * T_GREEN + 2 * T_YELLOW + T_RED_CLEAR,
        hi |-> 2 * (T_GREEN + T_YELLOW + T_RED_CLEAR), ns |-> "RED", ew |-> "RED"] >>

\* The permission a displayed color stands for.
permissionOf(col) ==
    IF col = LIGHT_GREEN THEN "GREEN" ELSE IF col = LIGHT_AMBER THEN "YELLOW" ELSE "RED"

\* C6: the colors an intersection displays after a tick are the row of the phase
\* table whose window holds timer mod T, T = 2 * (G + Y + R); that row is
\* unique, so the display is a function of timer mod T and repeats with period T.
C6_ColorsFollowPhaseTable ==
    ticks > 0 =>
        \A n \in DOMAIN lights :
            LET tm   == lights[n].timer % Sec(2 * (T_GREEN + T_YELLOW + T_RED_CLEAR))
                rows == {p \in 1..Len(PhaseTable) :
                            Sec(PhaseTable[p].lo) <= tm /\ tm < Sec(PhaseTable[p].hi)}
            IN  /\ Cardinality(rows) = 1
                /\ \A p \in rows :
                    /\ permissionOf(lights[n].meshNS) = PhaseTable[p].ns
                    /\ permissionOf(lights[n].meshEW) = PhaseTable[p].ew

\* C6 witness: an intersection is in its third cycle, in the NS YELLOW row.
C6_Witness ==
    \E n \in DOMAIN lights :
        /\ lights[n].timer >= 2 * Sec(CYCLE)
        /\ lights[n].meshNS = LIGHT_AMBER

\* C7: after any sequence of ticks the number of cars equals the initial
\* population and the set of car ids is unchanged.
C7_ClosedPopulation ==
    /\ Len(cars) = CarCount
    /\ \A id \in 0..(CarCount - 1) :
        Cardinality({i \in 1..Len(cars) : cars[i].id = id}) = 1

\* C7 witness: after ticks, a car that left its ROAD lane is on a JUNCTION lane
\* while another car is still on the lane it started on.
C7_Witness ==
    /\ ticks > 0
    /\ \E i \in 1..Len(cars) : ~IsRoad(cars[i].laneId)
    /\ \E i \in 1..Len(cars) : cars[i].laneId \in StartLanes

\* The iteration orders of the car list.
Perms ==
    {p \in [1..CarCount -> 1..CarCount] : \A i, j \in 1..CarCount : p[i] = p[j] => i = j}

\* The car list cs iterated in the order p.
permute(cs, p) == [i \in 1..Len(cs) |-> cs[p[i]]]

\* The post-tick a, v, t, laneId and targetLaneId of the car with the given id.
outcomeOf(cs, id) ==
    LET c == cs[CHOOSE i \in 1..Len(cs) : cs[i].id = id]
    IN  <<c.a, c.v, c.t, c.laneId, c.targetLaneId>>

\* C3 (as claimed): a tick is order-independent: from the same pre-tick state,
\* with the same signal state and the same random choices per car, every
\* iteration order of the car list gives every car the same post-tick a, v, t,
\* laneId and targetLaneId.
C3_TickOrderIndependent ==
    LET ls == updateTrafficLights(lights, PHYSICS_DT)
        rr == [id \in CarIdsOf(cars) |-> CHOOSE k \in RoadIdsOf(lanes) : TRUE]
    IN  \A rt \in TargetDraws(cars, ls, lanes) :
            LET base == updateCars(cars, ls, lanes, PHYSICS_DT, rt, rr)
            IN  \A p \in Perms :
                    LET other == updateCars(permute(cars, p), ls, lanes, PHYSICS_DT, rt, rr)
                    IN  \A id \in CarIdsOf(cars) : outcomeOf(other, id) = outcomeOf(base, id)

\* C4 (as claimed): a car whose gap computed in a tick is below MIN_GAP ends
\* that tick with v = 0 and with the emergency-braking value -4 * IDM_B stored
\* in a.
C4_SafetyClamp ==
    ticks > 0 =>
        \A i \in 1..Len(cars) :
            gaps[cars[i].id] < MIN_GAP =>
                cars[i].v = 0 /\ cars[i].a = -(IDM_B * 4)

\* The NS/EW permissions an intersection displays.
permissionsOf(light) == <<permissionOf(light.meshNS), permissionOf(light.meshEW)>>

\* C11 (as claimed): at every time an intersection whose phase field is p
\* displays exactly the NS/EW permissions of row p of the phase table.
C11_PermissionsFromPhase ==
    \A n \in DOMAIN lights :
        permissionsOf(lights[n]) =
            <<PhaseTable[lights[n].phase + 1].ns, PhaseTable[lights[n].phase + 1].ew>>

\* C12 (as claimed): a signal starts with a phase drawn from all six states and
\* a timer drawn from the whole of [0, cycle length), so that each of the six
\* rows of the phase table is displayed by some startup at the first tick.
C12_StartupCoversCycle ==
    \A n \in DOMAIN lights :
        /\ lights[n].phase \in PhaseDraws
        /\ \A tm \in 0..(Sec(CYCLE) - 1) : tm \in TimerDraws
        /\ \A p \in 1..Len(PhaseTable) :
            \E ph \in PhaseDraws, tm \in TimerDraws :
                permissionsOf(updateLight(newLight(n, ph, tm), PHYSICS_DT)) =
                    <<PhaseTable[p].ns, PhaseTable[p].ew>>

\* C13: after every frame 0 <= accumulator < PHYSICS_DT, and the number of
\* ticks run in the frame is floor((accumulator before + clamped frame time) /
\* PHYSICS_DT).
C13_AccumulatorDrained ==
    (pc = "idle") =>
        /\ 0 <= accumulator
        /\ accumulator < PHYSICS_DT * FRAME_RES
        /\ frame.frameTime = Min(frame.delta, MAX_FRAME_TIME)
        /\ frame.ticks = (frame.before + frame.frameTime) \div (PHYSICS_DT * FRAME_RES)

\* C13 witness: a frame that started with a remainder ran several ticks and
\* left a remainder.
C13_Witness ==
    /\ pc = "idle"
    /\ frame.before > 0
    /\ frame.ticks >= 2
    /\ accumulator > 0

\* C14: whatever time elapsed since the previous frame, the ticks a frame has
\* run plus those its loop still has to run never exceed
\* floor((0.1 s + PHYSICS_DT) / PHYSICS_DT), so the loop terminates within that
\* many ticks.
C14_BoundedCatchUp ==
    /\ accumulator >= 0
    /\ frame.ticks + accumulator \div (PHYSICS_DT * FRAME_RES)
         <= (MAX_FRAME_TIME + PHYSICS_DT * FRAME_RES) \div (PHYSICS_DT * FRAME_RES)
    /\ (pc = "idle" /\ frame.n > 0) => accumulator < PHYSICS_DT * FRAME_RES

\* C14 witness: a frame that followed a stall longer than the cap has ended,
\* having run ticks.
C14_Witness ==
    /\ pc = "idle"
    /\ frame.delta > MAX_FRAME_TIME
    /\ frame.ticks > 0

\* C15: the gesture does not interfere with the simulation: a frame's start
\* leaves cars, signals and lanes as they are and gives the accumulator the
\* value it would get under every other gesture, and no step of the loop
\* reads the gesture.
C15_GestureNonInterference ==
    [][/\ (pc = "idle" /\ pc' = "drain") =>
            /\ UNCHANGED simVars
            /\ \A g \in Gestures :
                 frameStart(accumulator, camera, frame'.delta, g).accumulator = accumulator'
       /\ (pc = "drain") => frame'.gesture = frame.gesture /\ camera' = camera]_vars

\* C15 witness: a frame with a detected hand has moved the camera and run ticks.
C15_Witness ==
    /\ frame.gesture.isDetected
    /\ frame.ticks > 0
    /\ camera.y # CAMERA_Y0

\* C16: no simulation tick changes the lane graph: the set of lanes and every
\* field of every lane are unchanged by updatePhysics, and so is the set of
\* intersections.
C16_LaneGraphImmutable ==
    [][/\ lanes' = lanes
       /\ DOMAIN lights' = DOMAIN lights
       /\ \A n \in DOMAIN lights : lights'[n].nodeId = lights[n].nodeId]_vars

\* C16 witness: ticks have run in which a car committed a target and moved onto
\* a JUNCTION lane and a signal turned yellow.
C16_Witness ==
    /\ ticks > 0
    /\ \E i \in 1..Len(cars) : ~IsRoad(cars[i].laneId) /\ cars[i].t > 0
    /\ \E n \in DOMAIN lights : lights[n].meshNS = LIGHT_AMBER

\* The car array when pass 1 reaches index k: the cars before k as pass 1
\* leaves them, the others as they were.
pass1Before(c0, ls, lm, k, rt) ==
    LET mid == pass1(c0, c0, ls, lm, 1, rt)
    IN  [i \in 1..Len(c0) |-> IF i < k THEN mid[i] ELSE c0[i]]

\* C17 (as claimed): pass 1 of a tick changes no car's t and no car's v.
C17_Pass1KeepsPositionAndSpeed ==
    LET ls == updateTrafficLights(lights, PHYSICS_DT)
    IN  \A rt \in TargetDraws(cars, ls, lanes) :
            LET mid == pass1(cars, cars, ls, lanes, 1, rt)
            IN  \A i \in 1..Len(cars) : mid[i].t = cars[i].t /\ mid[i].v = cars[i].v

\* The permission the signal heads ls show towards the ROAD lane `lane`.
approachPermission(ls, lane) ==
    permissionOf(IF lane.direction = "NS" THEN ls[lane.toNodeId].meshNS
                 ELSE ls[lane.toNodeId].meshEW)

\* C18: no car runs a red light: in a tick in which the permission for a ROAD
\* lane's approach axis is RED or YELLOW, every car on that lane stays on it,
\* short of the lane end.
C18_NoRedLightRunning ==
    [][\A i \in 1..Len(cars) :
         LET lane == lanes[cars[i].laneId]
         IN  (lane.type = "ROAD" /\ approachPermission(lights', lane) \in {"RED", "YELLOW"})
                 => /\ cars'[i].id = cars[i].id
                    /\ cars'[i].laneId = cars[i].laneId
                    /\ cars'[i].t < lane.len]_vars

\* C18 witness: after ticks, a car has come to rest within five units of the
\* end of a ROAD lane whose approach is RED.
C18_Witness ==
    /\ ticks > 0
    /\ \E i \in 1..Len(cars) :
         LET lane == lanes[cars[i].laneId]
         IN  /\ lane.type = "ROAD"
             /\ approachPermission(lights, lane) = "RED"
             /\ cars[i].v = 0
             /\ lane.len - cars[i].t < 5 * SCALE

\* The car at index k of cs has no same-lane leader: every other car of its
\* lane is behind it, or level with it and later in the car array (the sort by
\* descending t is stable).
isFrontMost(cs, k) ==
    \A j \in 1..Len(cs) :
        (j # k /\ cs[j].laneId = cs[k].laneId)
            => \/ cs[j].t < cs[k].t
               \/ cs[j].t = cs[k].t /\ j > k

\* The indices of the rearmost cars (smallest t) of lane laneId.
rearmost(cs, laneId) ==
    {j \in 1..Len(cs) : /\ cs[j].laneId = laneId
                        /\ \A h \in 1..Len(cs) : cs[h].laneId = laneId => cs[j].t <= cs[h].t}

\* C19: gap selection for the front-most car of a ROAD lane in the tick about
\* to run: under RED or YELLOW gap = distance to lane end - stop margin and
\* dv = own v; under GREEN, if the committed target lane holds a car and the
\* virtual gap to its rearmost car is below the lookahead threshold, gap = that
\* virtual gap and dv = own v - that car's v; otherwise the free-flow gap with
\* dv = 0.
C19_RoadFrontGapSelection ==
    LET ls == updateTrafficLights(lights, PHYSICS_DT)
    IN  \A rt \in TargetDraws(cars, ls, lanes) :
          LET mid == pass1(cars, cars, ls, lanes, 1, rt)
          IN  \A k \in 1..Len(cars) :
                LET car       == cars[k]
                    lane      == lanes[car.laneId]
                    cs        == [i \in 1..Len(cars) |-> IF i < k THEN mid[i] ELSE cars[i]]
                    target    == mid[k].targetLaneId
                    gd        == perceive(cs, cars, ls, lanes, k, target)
                    distToEnd == lane.len - car.t
                    rear      == rearmost(cars, target)
                IN  (lane.type = "ROAD" /\ isFrontMost(cars, k)) =>
                      IF approachPermission(ls, lane) \in {"RED", "YELLOW"}
                      THEN gd = <<distToEnd - STOP_MARGIN, car.v>>
                      ELSE IF /\ target # NoLane
                              /\ \E j \in rear : distToEnd + cs[j].t - CAR_LENGTH < LOOKAHEAD
                           THEN \E j \in rear :
                                  gd = <<distToEnd + cs[j].t - CAR_LENGTH, car.v - cs[j].v>>
                           ELSE gd = <<FREE_GAP, 0>>

\* C19 witness: in the last tick the front-most car of a ROAD lane under GREEN
\* used a virtual gap below the lookahead threshold against a car on its
\* committed target lane.
C19_Witness ==
    /\ ticks > 0
    /\ \E k \in 1..Len(cars) :
         /\ lanes[cars[k].laneId].type = "ROAD"
         /\ isFrontMost(cars, k)
         /\ approachPermission(lights, lanes[cars[k].laneId]) = "GREEN"
         /\ cars[k].targetLaneId # NoLane
         /\ rearmost(cars, cars[k].targetLaneId) # {}
         /\ gaps[cars[k].id] >= MIN_GAP
         /\ gaps[cars[k].id] < LOOKAHEAD

\* The signal map ls with every head pair showing the colors ns, ew.
recolored(ls, ns, ew) == [n \in DOMAIN ls |-> [ls[n] EXCEPT !.meshNS = ns, !.meshEW = ew]]

\* C20: for the front-most car of a JUNCTION lane in the tick about to run, the
\* outcome of pass 1 is the same under every signal state; the car commits to
\* the lane's single successor if it has no target; and when the successor lane
\* holds a car its gap is the virtual gap to that lane's rearmost car, whatever
\* its size, and otherwise the free-flow gap.
C20_JunctionFrontGapSelection ==
    LET ls     == updateTrafficLights(lights, PHYSICS_DT)
        colors == {LIGHT_RED, LIGHT_GREEN, LIGHT_AMBER}
    IN  \A rt \in TargetDraws(cars, ls, lanes) :
          LET mid == pass1(cars, cars, ls, lanes, 1, rt)
          IN  \A k \in 1..Len(cars) :
                LET car       == cars[k]
                    lane      == lanes[car.laneId]
                    cs        == [i \in 1..Len(cars) |-> IF i < k THEN mid[i] ELSE cars[i]]
                    target    == mid[k].targetLaneId
                    gd        == perceive(cs, cars, ls, lanes, k, target)
                    distToEnd == lane.len - car.t
                    rear      == rearmost(cars, target)
                IN  (lane.type = "JUNCTION" /\ isFrontMost(cars, k)) =>
                      /\ \A ns, ew \in colors :
                           pass1Car(cs, cars, recolored(ls, ns, ew), lanes, k, rt[car.id]) = mid[k]
                      /\ Len(lane.nextLanes) = 1
                      /\ target = IF car.targetLaneId = NoLane THEN lane.nextLanes[1]
                                  ELSE car.targetLaneId
                      /\ IF rear # {}
                         THEN \E j \in rear :
                                gd = <<distToEnd + cs[j].t - CAR_LENGTH, car.v - cs[j].v>>
                         ELSE gd = <<FREE_GAP, 0>>

\* C20 witness: in the last tick the front-most car of a JUNCTION lane used a
\* virtual gap beyond the lookahead threshold against a car on its successor
\* lane.
C20_Witness ==
    /\ ticks > 0
    /\ \E k \in 1..Len(cars) :
         /\ lanes[cars[k].laneId].type = "JUNCTION"
         /\ isFrontMost(cars, k)
         /\ cars[k].targetLaneId # NoLane
         /\ rearmost(cars, cars[k].targetLaneId) # {}
         /\ gaps[cars[k].id] >= LOOKAHEAD
         /\ gaps[cars[k].id] < FREE_GAP

\* The car at index k of cs is the first of its lane in the lane ordering of
\* the tick.
leadsLane(cs, k) == indexOf(carsByLane(cs, cs[k].laneId), k) = 1

\* C21: a car's targetLaneId is null or one of the nextLanes of the lane the car
\* is on; on a ROAD lane a target is committed only in a tick in which the car
\* is front-most and its signal is GREEN; a committed target is neither changed
\* nor cleared until the car transitions into it.
C21_TargetCommitment ==
    [][\A i \in 1..Len(cars) :
         LET car  == cars[i]
             lane == lanes[car.laneId]
             next == cars'[i]
         IN  /\ next.id = car.id
             /\ car.targetLaneId = NoLane \/ InSeq(car.targetLaneId, lane.nextLanes)
             /\ next.targetLaneId = NoLane
                  \/ InSeq(next.targetLaneId, lanes[next.laneId].nextLanes)
             /\ (lane.type = "ROAD" /\ car.targetLaneId = NoLane
                   /\ (next.targetLaneId # NoLane \/ next.laneId # car.laneId))
                  => /\ leadsLane(cars, i)
                     /\ approachPermission(lights', lane) = "GREEN"
             /\ car.targetLaneId # NoLane
                  => \/ next.laneId = car.laneId /\ next.targetLaneId = car.targetLaneId
                     \/ next.laneId = car.targetLaneId /\ next.targetLaneId = NoLane]_vars

\* C21 witness: a car holds a committed target on a ROAD lane whose signal is
\* no longer GREEN, while another car has moved through a junction.
C21_Witness ==
    /\ \E i \in 1..Len(cars) :
         /\ IsRoad(cars[i].laneId)
         /\ cars[i].targetLaneId # NoLane
         /\ approachPermission(lights, lanes[cars[i].laneId]) # "GREEN"
    /\ \E i \in 1..Len(cars) : cars[i].laneId \notin StartLanes

\* C22: when after integration a car's t is at or beyond its lane's length and
\* a target is set, the car moves to that target, a successor of the lane it
\* left, with t the overshoot and targetLaneId cleared; laneId changes in no
\* other way except recycling (t = 0 on a ROAD lane, no target held).
C22_LaneTransition ==
    [][\A i \in 1..Len(cars) :
         LET car  == cars[i]
             lane == lanes[car.laneId]
             next == cars'[i]
             tInt == car.t + Quot(next.v * PHYSICS_DT, PHYSICS_HZ)
         IN  IF tInt >= lane.len
             THEN \/ /\ InSeq(next.laneId, lane.nextLanes)
                     /\ car.targetLaneId # NoLane => next.laneId = car.targetLaneId
                     /\ next.t = tInt - lane.len
                     /\ next.targetLaneId = NoLane
                  \/ /\ car.targetLaneId = NoLane
                     /\ Len(lane.nextLanes) = 0 \/ ~leadsLane(cars, i)
                          \/ approachPermission(lights', lane) # "GREEN"
                     /\ IsRoad(next.laneId)
                     /\ next.t = 0
                     /\ next.targetLaneId = NoLane
             ELSE next.laneId = car.laneId /\ next.t = tInt]_vars

\* C22 witness: a car has just entered a JUNCTION lane with the overshoot of the
\* tick as its t, no target held, while a car behind is still on the ROAD lane.
C22_Witness ==
    /\ ticks > 0
    /\ \E i \in 1..Len(cars) :
         /\ ~IsRoad(cars[i].laneId)
         /\ cars[i].targetLaneId = NoLane
         /\ cars[i].v > 0
         /\ cars[i].t > 0
         /\ cars[i].t * PHYSICS_HZ < cars[i].v * PHYSICS_DT
    /\ \E i \in 1..Len(cars) : IsRoad(cars[i].laneId)

\* Lines 419-422 of updatePhysics run only for a car at its lane's end with no
\* target.  On the lane map buildNetwork produces every ROAD lane has a
\* successor (C24_EveryRoadLaneContinues), the front-most car under GREEN always
\* commits one, and every other car is stopped short of the end, so no run of
\* the program enters that branch.  The definitions from DeadEnd to SpecDeadEnd
\* are a test input for those lines, not states of the program: updatePhysics
\* is run unchanged on the built lane map with the JUNCTION lanes out of one
\* ROAD lane removed, the only way a car reaches a lane end with no target.

\* The ROAD lane of the test input that is given no successors.
DeadEnd == RoadId(NodeId(0, 0), NodeId(0, 1))

\* The lane map lm with the JUNCTION lanes out of laneId taken away.  The
\* source has no such operation; buildNetwork never returns this map.
withoutSuccessors(lm, laneId) ==
    LET gone == {k \in DOMAIN lm : k[1] = "J" /\ k[2] = laneId}
    IN  [k \in DOMAIN lm \ gone |->
            IF k = laneId THEN [lm[k] EXCEPT !.nextLanes = <<>>] ELSE lm[k]]

\* The ticks explored on the test input.
MaxDeadEndTicks == 200

\* The test input: the cars of a long run, all on the lane without successors.
InitDeadEnd ==
    /\ lanes = withoutSuccessors(buildLanes, DeadEnd)
    /\ lights \in InitLights
    /\ cars = [i \in 1..CarCount |->
                  newCar(i - 1, buildLanes[DeadEnd], LongDraws[((i - 1) % Len(LongDraws)) + 1])]
    /\ ticks = 0
    /\ gaps = [id \in 0..(CarCount - 1) |-> NoGap]
    /\ seen = [n \in Nodes |-> [lastGreen |-> "NONE", allRed |-> FALSE]]
    /\ accumulator = 0
    /\ camera = [y |-> CAMERA_Y0, targetR |-> CAMERA_Y0, rotSpeed |-> 0]
    /\ pc = "idle"
    /\ frame = [n |-> 0, delta |-> 0, frameTime |-> 0, before |-> 0, ticks |-> 0,
                gesture |-> fallback]

UpdatePhysicsDeadEnd ==
    /\ ticks < MaxDeadEndTicks
    /\ physicsStep(PHYSICS_DT, FALSE)
    /\ UNCHANGED frameVars

NextDeadEnd == UpdatePhysicsDeadEnd

SpecDeadEnd == InitDeadEnd /\ [][NextDeadEnd]_vars

\* C23: in the tick about to run, a car whose integrated t reaches its lane's
\* length with no target committed is reset to t = 0 on a ROAD lane, never a
\* JUNCTION lane, keeps its id, and its targetLaneId stays null.
C23_Recycling ==
    LET ls == updateTrafficLights(lights, PHYSICS_DT)
    IN  \A rt \in TargetDraws(cars, ls, lanes) :
          LET mid == pass1(cars, cars, ls, lanes, 1, rt)
          IN  \A rrs \in RecycleDraws(mid, lanes, PHYSICS_DT) :
                LET out == pass2(mid, lanes, PHYSICS_DT, rrs)
                IN  \A i \in 1..Len(cars) :
                      (/\ integrate(mid[i], PHYSICS_DT).t >= lanes[cars[i].laneId].len
                       /\ mid[i].targetLaneId = NoLane)
                        => /\ out[i].t = 0
                           /\ out[i].laneId \in DOMAIN lanes
                           /\ lanes[out[i].laneId].type = "ROAD"
                           /\ out[i].id = cars[i].id
                           /\ out[i].targetLaneId = NoLane

\* C23 witness (on the test input): a car sits at t = 0 on a ROAD lane other
\* than the one every car started on, with no target: it was recycled.
C23_Witness ==
    \E i \in 1..Len(cars) :
        /\ cars[i].laneId # DeadEnd
        /\ IsRoad(cars[i].laneId)
        /\ cars[i].t = 0
        /\ cars[i].targetLaneId = NoLane

\* C24 (the case it is about): every ROAD lane of the lane map has at least one
\* successor lane, so no car of the program is ever front-most on a ROAD lane
\* with zero successors; the claim's case arises in no state of the program.
C24_EveryRoadLaneContinues ==
    \A k \in DOMAIN lanes :
        lanes[k].type = "ROAD" => Len(lanes[k].nextLanes) > 0

\* C24 (as claimed): for the front-most car of a ROAD lane with zero successor
\* lanes under GREEN, the gap used in the tick is the distance to the lane end,
\* no target is committed and the car stays on that lane.  With
\* C24_EveryRoadLaneContinues the premise is false in every state of the
\* program, so its runs neither show nor contradict the behaviour described.
C24_DeadEndIdles ==
    [][\A i \in 1..Len(cars) :
         LET car  == cars[i]
             lane == lanes[car.laneId]
         IN  (/\ lane.type = "ROAD"
              /\ Len(lane.nextLanes) = 0
              /\ leadsLane(cars, i)
              /\ approachPermission(lights', lane) = "GREEN")
               => /\ gaps'[car.id] = lane.len - car.t
                  /\ cars'[i].targetLaneId = NoLane
                  /\ cars'[i].laneId = car.laneId]_vars

\* C25: with the ticks kept running, from every state up to one cycle before
\* the end of the run every intersection shows GREEN for the NS axis again and
\* GREEN for the EW axis again, and every step either leaves a signal alone or
\* advances it by the elapsed time only: the new light is the one updateLight
\* computes from the old one.
C25_SignalsRunForever ==
    /\ \A n \in Nodes :
        /\ (ticks <= MaxLoneTicks - Sec(CYCLE)) ~> (lights[n].meshNS = LIGHT_GREEN)
        /\ (ticks <= MaxLoneTicks - Sec(CYCLE)) ~> (lights[n].meshEW = LIGHT_GREEN)
    /\ [][\A n \in Nodes :
            \/ lights'[n] = lights[n]
            \/ lights'[n] = updateLight(lights[n], PHYSICS_DT)]_vars

\* C25 witness: an intersection in its second cycle or later shows NS GREEN
\* again: EW was its last GREEN, with an all-red state since.
C25_Witness ==
    /\ Len(cars) = 1
    /\ \E n \in Nodes :
        /\ lights[n].meshNS = LIGHT_GREEN
        /\ seen[n].lastGreen = "EW"
        /\ seen[n].allRed
        /\ lights[n].timer >= Sec(CYCLE)

\* The lone car has just come onto its lane: it moves and its t is no more
\* than the distance of one tick (cars start far beyond that, and t only grows
\* on a lane).
justEntered ==
    /\ ticks > 0
    /\ cars[1].v > 0
    /\ cars[1].t * PHYSICS_HZ < cars[1].v * PHYSICS_DT + PHYSICS_HZ

\* C28: with a single car and the ticks kept running, from every state up to
\* two cycles before the end of the run the car moves again and comes onto
\* another lane: it is never stopped for good and keeps changing lane.
C28_LoneCarProgress ==
    (ticks <= MaxLoneTicks - 2 * Sec(CYCLE)) ~> justEntered

\* C28 witness: the lone car runs through a JUNCTION lane towards a committed
\* ROAD lane at less than half the desired speed, having entered from rest.
C28_Witness ==
    /\ Len(cars) = 1
    /\ ticks > 0
    /\ ~IsRoad(cars[1].laneId)
    /\ cars[1].v > 0 /\ cars[1].v < IDM_V0 \div 2
    /\ cars[1].targetLaneId # NoLane

\* The permission the phase table gives the axis dir at the timer value timer.
tablePermission(timer, dir) ==
    LET tm == timer % Sec(2 * (T_GREEN + T_YELLOW + T_RED_CLEAR))
        p  == CHOOSE q \in 1..Len(PhaseTable) :
                  Sec(PhaseTable[q].lo) <= tm /\ tm < Sec(PhaseTable[q].hi)
    IN  IF dir = "NS" THEN PhaseTable[p].ns ELSE PhaseTable[p].ew

\* C26: in every tick, the first after startup included, a front-most ROAD car
\* holding no target acts on the phase-table permission for its destination
\* node's timer as updated in that tick: under GREEN it commits a target (and
\* may cross with it), under RED or YELLOW its gap is the stop-line gap and it
\* commits nothing.
C26_SignalsAdvanceBeforePerception ==
    [][\A i \in 1..Len(cars) :
         LET car  == cars[i]
             lane == lanes[car.laneId]
         IN  (lane.type = "ROAD" /\ leadsLane(cars, i) /\ car.targetLaneId = NoLane)
               => IF tablePermission(lights'[lane.toNodeId].timer, lane.direction) = "GREEN"
                  THEN \/ cars'[i].targetLaneId # NoLane
                       \/ cars'[i].laneId # car.laneId
                  ELSE /\ gaps'[car.id] = lane.len - car.t - STOP_MARGIN
                       /\ cars'[i].targetLaneId = NoLane
                       /\ cars'[i].laneId = car.laneId]_vars

\* C26 witness: after the first tick a car on an NS ROAD lane, whose signal head
\* was built RED, holds a target.
C26_Witness ==
    /\ ticks = 1
    /\ \E i \in 1..Len(cars) :
         /\ IsRoad(cars[i].laneId)
         /\ lanes[cars[i].laneId].direction = "NS"
         /\ lights[lanes[cars[i].laneId].toNodeId].meshNS = LIGHT_GREEN
         /\ cars[i].targetLaneId # NoLane

\* C27: no overtaking within a lane: when car j is ahead of car i on their lane
\* at the start of a tick (larger t, or equal t and earlier in the lane
\* ordering), then after the tick i has not left the lane while j is still on
\* it, and if both are still on it i is not ahead of j.
C27_NoOvertaking ==
    [][\A i, j \in 1..Len(cars) :
         LET F     == cars[i]
             L     == cars[j]
             order == carsByLane(cars, F.laneId)
         IN  (/\ i # j
              /\ L.laneId = F.laneId
              /\ \/ L.t > F.t
                 \/ L.t = F.t /\ indexOf(order, j) < indexOf(order, i))
               => /\ cars'[j].laneId = L.laneId => cars'[i].laneId = F.laneId
                  /\ (cars'[i].laneId = F.laneId /\ cars'[j].laneId = L.laneId)
                        => cars'[i].t <= cars'[j].t]_vars

\* C27 witness: more than a second into the run a moving follower is within two
\* minimum gaps of the rear of its same-lane leader, which stands still.
C27_Witness ==
    /\ ticks > PHYSICS_HZ
    /\ \E i, j \in 1..Len(cars) :
         /\ i # j
         /\ cars[j].laneId = cars[i].laneId
         /\ cars[j].t > cars[i].t
         /\ cars[i].v > 0
         /\ cars[j].v = 0
         /\ cars[j].t - cars[i].t - CAR_LENGTH < 2 * MIN_GAP

=============================================================================
